---- MODULE Spec2Model ----
(***************************************************************************)
(* Model of the browser-side state machines of the realty site:            *)
(*   - the Chat Widget of RealEstatePage.jsx (transcript, input, the       *)
(*     awaiting-reply flag and the chat request in flight),                *)
(*   - the Admin Panel (AdminPanel component): the dialog, the form draft, *)
(*     the editing marker, the held property list and the HTTP requests    *)
(*     in flight, together with the server's property store.               *)
(* A text is a sequence of tokens; a token is a one-character string for   *)
(* anything typed by the user and a whole literal for the fixed messages.  *)
(***************************************************************************)
EXTENDS Integers, Sequences, FiniteSets, Bags, TLC

VARIABLES
    \* ---- Chat Widget (RealEstatePage.jsx) ----
    chatOpen,       \* useState(false)
    messages,       \* useState([greeting]): sequence of [type, content]
    inputMessage,   \* useState('')
    isLoading,      \* useState(false)
    chatNet,        \* chat requests in flight: sequence of [message, status, response]
    chatEvent,      \* history: the last handler that ran, and its outcome
    \* ---- Admin Panel (AdminPanel component) ----
    properties,     \* useState([]): the held property list
    loading,        \* useState(true)
    isDialogOpen,   \* useState(false)
    editingProperty,\* useState(null): the editing marker
    formData,       \* useState({...}): the form draft, every field a text
    server,         \* the property store behind the HTTP API, in list order
    nextId,         \* number of ids the server has assigned
    adminNet,       \* requests in flight: a bag of [kind, id, payload, status, data]
    mutations,      \* number of create, update and delete requests issued
    adminEvent,     \* history: the last handler that ran, and its outcome
    openedBy        \* history: the control that opened the dialog, while it is open

chatVars == <<chatOpen, messages, inputMessage, isLoading, chatNet, chatEvent>>

adminVars == <<properties, loading, isDialogOpen, editingProperty, formData,
               server, nextId, adminNet, mutations, adminEvent, openedBy>>

vars == <<chatVars, adminVars>>

----------------------------------------------------------------------------
(* Bounds of the model *)

\* accepted sends per run (the transcript itself is unbounded in the code)
MaxExchanges == 3

\* create, update and delete requests issued per run
MaxMutations == 2

----------------------------------------------------------------------------
(* Texts *)

Last(s) == s[Len(s)]

IsSpace(c) == c \in {" ", "\n", "\t"}

RECURSIVE TrimStart(_)
TrimStart(s) ==
    IF s = <<>> THEN <<>>
    ELSE IF IsSpace(Head(s)) THEN TrimStart(Tail(s)) ELSE s

RECURSIVE TrimEnd(_)
TrimEnd(s) ==
    IF s = <<>> THEN <<>>
    ELSE IF IsSpace(Last(s)) THEN TrimEnd(SubSeq(s, 1, Len(s) - 1)) ELSE s

\* String.prototype.trim
Trim(s) == TrimEnd(TrimStart(s))

\* what the user can have in the textarea
InputTexts ==
    { <<>>, <<" ">>, <<" ", "\n">>, <<"h", "i">>, <<" ", "h", "i", " ">> }

\* the response texts the agent service can send
AgentTexts == { <<"3 homes found">>, <<"rates are 6%">> }

Greeting ==
    <<"Hello! I'm your real estate assistant. I can help you with property searches, market analysis, investment advice, and any questions about buying or selling homes. How can I assist you today?">>

ApologyMessage ==
    <<"I apologize, but I'm having trouble responding right now. Please try again.">>

UnavailableMessage ==
    <<"I'm currently unavailable. Please try again later.">>

UserTurn(text) == [type |-> "user", content |-> text]
AgentTurn(text) == [type |-> "agent", content |-> text]

UserTurns == Cardinality({i \in DOMAIN messages : messages[i].type = "user"})

\* agent turns other than the greeting
AgentReplies == Cardinality({i \in 2..Len(messages) : messages[i].type = "agent"})

RemoveAt(s, i) == SubSeq(s, 1, i - 1) \o SubSeq(s, i + 1, Len(s))

----------------------------------------------------------------------------
(* JavaScript values, numbers and their text forms *)

Null == [tag |-> "null"]
NaN == [tag |-> "NaN"]
Num(n) == [tag |-> "num", val |-> n]
Str(text) == [tag |-> "str", val |-> text]
\* a decimal number: units and the digits after the point, no trailing zero
Dec(neg, units, frac) == [tag |-> "dec", neg |-> neg, units |-> units, frac |-> frac]

Digits == <<"0", "1", "2", "3", "4", "5", "6", "7", "8", "9">>

IsDigit(c) == \E d \in 1..10 : Digits[d] = c

DigitVal(c) == (CHOOSE d \in 1..10 : Digits[d] = c) - 1

\* Number.prototype.toString of a non-negative integer
RECURSIVE NatToText(_)
NatToText(n) ==
    IF n < 10 THEN <<Digits[n + 1]>>
    ELSE NatToText(n \div 10) \o <<Digits[(n % 10) + 1]>>

\* Number.prototype.toString of an integer
IntToText(n) == IF n < 0 THEN <<"-">> \o NatToText(0 - n) ELSE NatToText(n)

\* Number.prototype.toString of a decimal number
DecToText(d) ==
    (IF d.neg THEN <<"-">> ELSE <<>>)
        \o NatToText(d.units)
        \o (IF d.frac = <<>> THEN <<>> ELSE <<".">> \o d.frac)

\* the longest prefix of digits
RECURSIVE DigitPrefix(_)
DigitPrefix(s) ==
    IF s = <<>> \/ ~IsDigit(Head(s)) THEN <<>>
    ELSE <<Head(s)>> \o DigitPrefix(Tail(s))

RECURSIVE DigitsValue(_)
DigitsValue(ds) ==
    IF ds = <<>> THEN 0
    ELSE DigitsValue(SubSeq(ds, 1, Len(ds) - 1)) * 10 + DigitVal(Last(ds))

HasSign(s) == s # <<>> /\ Head(s) \in {"+", "-"}

\* parseInt(text), radix 10: leading white space, a sign, the digits that follow
ParseInt(text) ==
    LET s == TrimStart(text)
        body == IF HasSign(s) THEN Tail(s) ELSE s
        ds == DigitPrefix(body)
    IN  IF ds = <<>> THEN NaN
        ELSE IF HasSign(s) /\ Head(s) = "-" THEN Num(0 - DigitsValue(ds))
        ELSE Num(DigitsValue(ds))

RECURSIVE DropTrailingZeros(_)
DropTrailingZeros(ds) ==
    IF ds # <<>> /\ Last(ds) = "0"
    THEN DropTrailingZeros(SubSeq(ds, 1, Len(ds) - 1))
    ELSE ds

\* parseFloat(text): leading white space, a sign, digits, a point and digits
ParseFloat(text) ==
    LET s == TrimStart(text)
        body == IF HasSign(s) THEN Tail(s) ELSE s
        whole == DigitPrefix(body)
        rest == SubSeq(body, Len(whole) + 1, Len(body))
        frac == IF rest # <<>> /\ Head(rest) = "." THEN DigitPrefix(Tail(rest)) ELSE <<>>
    IN  IF whole = <<>> /\ frac = <<>> THEN NaN
        ELSE Dec(HasSign(s) /\ Head(s) = "-", DigitsValue(whole), DropTrailingZeros(frac))

\* truthiness of a text, of a number and of null
TruthyText(text) == text # <<>>

TruthyValue(v) ==
    CASE v.tag = "null" -> FALSE
      [] v.tag = "NaN" -> FALSE
      [] v.tag = "num" -> v.val # 0
      [] v.tag = "dec" -> v.units # 0 \/ v.frac # <<>>
      [] v.tag = "str" -> v.val # <<>>

\* String.prototype.split at a one-token separator
RECURSIVE SplitFrom(_, _, _)
SplitFrom(s, sep, cur) ==
    IF s = <<>> THEN <<cur>>
    ELSE IF Head(s) = sep THEN <<cur>> \o SplitFrom(Tail(s), sep, <<>>)
    ELSE SplitFrom(Tail(s), sep, Append(cur, Head(s)))

Split(s, sep) == SplitFrom(s, sep, <<>>)

\* Array.prototype.join
RECURSIVE Join(_, _)
Join(parts, sep) ==
    IF parts = <<>> THEN <<>>
    ELSE IF Len(parts) = 1 THEN parts[1]
    ELSE parts[1] \o sep \o Join(Tail(parts), sep)

\* what JSON.stringify makes of a number
JsonNumber(v) == IF v.tag = "NaN" THEN Null ELSE v

----------------------------------------------------------------------------
(* Property records and form drafts *)

FormFields ==
    { "title", "description", "price", "location", "address", "bedrooms",
      "bathrooms", "sqft", "property_type", "image_url", "amenities",
      "year_built", "garage", "lot_size", "mls_number" }

\* the empty template of useState and of resetForm
EmptyForm == [f \in FormFields |-> <<>>]

\* the listings the store can hold when the panel is mounted
PropA ==
    [ id |-> "p1", title |-> <<"Loft">>, description |-> <<"Bright loft">>,
      price |-> 950000, location |-> <<"Malibu, CA">>, address |-> <<"1 Sea Rd">>,
      bedrooms |-> 2, bathrooms |-> 1, sqft |-> 800,
      property_type |-> <<"condo">>, image_url |-> <<"https://img/1">>,
      amenities |-> << <<"P", "o", "o", "l">>, <<"S", "p", "a">> >>,
      year_built |-> Num(1999), garage |-> Num(0),
      lot_size |-> Dec(FALSE, 0, <<"5">>), mls_number |-> Str(<<"MLS1">>),
      status |-> "active" ]

PropB ==
    [ id |-> "p2", title |-> <<"Cabin">>, description |-> <<"Quiet cabin">>,
      price |-> 0, location |-> <<"Bend, OR">>, address |-> <<"2 Pine St">>,
      bedrooms |-> 3, bathrooms |-> 2, sqft |-> 1200,
      property_type |-> <<"house">>, image_url |-> <<"https://img/2">>,
      amenities |-> <<>>,
      year_built |-> Null, garage |-> Null,
      lot_size |-> Null, mls_number |-> Null,
      status |-> "sold" ]

InitialStores == { <<PropA>>, <<PropB>> }

\* the ids the server assigns to created listings
NewIds == <<"n1", "n2", "n3", "n4">>

\* what the user can type into a field of the dialog
TypedInputs ==
    { <<"title", <<"Villa">>>> }

\* the values an <Input type="number"> reports: empty (also for a text that
\* is no number) or a number, with an optional sign, fraction and exponent
NumberInputValues ==
    { <<>>, <<"0">>, <<"1", "2">>, <<"-", "3">>, <<"1", ".", "5">>,
      <<".", "5">>, <<"1", "e", "3">> }

\* texts of the amenities input: "Pool, Spa,  Gym", "Pool,,Spa,", " ", "Gym"
AmenitiesTexts ==
    { <<>>,
      <<"P", "o", "o", "l", ",", " ", "S", "p", "a", ",", " ", " ", "G", "y", "m">>,
      <<"P", "o", "o", "l", ",", ",", "S", "p", "a", ",">>,
      <<" ">>,
      <<"G", "y", "m">> }

----------------------------------------------------------------------------
(* Chat Widget: the useState values *)

ChatInit ==
    /\ chatOpen = FALSE
    /\ messages = <<AgentTurn(Greeting)>>
    /\ inputMessage = <<>>
    /\ isLoading = FALSE
    /\ chatNet = <<>>
    /\ chatEvent = "init"

----------------------------------------------------------------------------
(* Admin Panel: requests and the server behind them *)

Request(kind, id, payload) ==
    [kind |-> kind, id |-> id, payload |-> payload, status |-> "sent", data |-> <<>>]

ListRequest == Request("list", "", Null)

\* no control has the dialog open
NotOpened == [how |-> "none", id |-> ""]

\* the useState values of the component, before its mount effect has run
AdminUnmounted ==
    /\ properties = <<>>
    /\ loading = TRUE
    /\ isDialogOpen = FALSE
    /\ editingProperty = Null
    /\ formData = EmptyForm
    /\ server = <<>>
    /\ nextId = 0
    /\ adminNet = EmptyBag
    /\ mutations = 0
    /\ adminEvent = "unmounted"
    /\ openedBy = NotOpened

\* the component once mounted: useEffect has called fetchProperties
AdminInit ==
    /\ properties = <<>>
    /\ loading = TRUE
    /\ isDialogOpen = FALSE
    /\ editingProperty = Null
    /\ formData = EmptyForm
    /\ server \in InitialStores
    /\ nextId = 0
    /\ adminNet = SetToBag({ListRequest})
    /\ mutations = 0
    /\ adminEvent = "mount"
    /\ openedBy = NotOpened

StoreIds == {server[i].id : i \in DOMAIN server}

StoreIndex(id) == CHOOSE i \in DOMAIN server : server[i].id = id

\* the record the store keeps for a payload received as JSON
StoredProperty(payload, id, status) ==
    [f \in FormFields \cup {"id", "status"} |->
        CASE f = "id" -> id
          [] f = "status" -> status
          [] f \in {"year_built", "garage", "lot_size"} -> JsonNumber(payload[f])
          [] f = "mls_number" -> Str(payload[f])
          [] OTHER -> payload[f]]

\* the requests in flight with one more, with one less, and with one settled
Sent(net, req) == net (+) SetToBag({req})

Taken(net, req) == net (-) SetToBag({req})

Settled(net, req, status, data) ==
    Sent(Taken(net, req), [req EXCEPT !.status = status, !.data = data])

\* the HTTP API handles one request: it answers it, or the request fails
\* (never reaching the server, or refused by it) and the store is unchanged
ApiHandles ==
    /\ \E req \in BagToSet(adminNet) :
          /\ req.status = "sent"
          /\ \/ /\ adminNet' = Settled(adminNet, req, "failed", <<>>)
                /\ UNCHANGED <<server, nextId>>
             \/ /\ req.kind = "list"
                /\ adminNet' = Settled(adminNet, req, "ok", server)
                /\ UNCHANGED <<server, nextId>>
             \/ /\ req.kind = "create"
                /\ nextId < Len(NewIds)
                /\ server' = Append(server,
                                StoredProperty(req.payload, NewIds[nextId + 1], "active"))
                /\ nextId' = nextId + 1
                /\ adminNet' = Settled(adminNet, req, "ok", <<>>)
             \/ /\ req.kind = "update"
                /\ req.id \in StoreIds
                /\ server' = [server EXCEPT ![StoreIndex(req.id)] =
                                StoredProperty(req.payload, req.id, @.status)]
                /\ adminNet' = Settled(adminNet, req, "ok", <<>>)
                /\ UNCHANGED nextId
             \/ /\ req.kind = "delete"
                /\ req.id \in StoreIds
                /\ server' = RemoveAt(server, StoreIndex(req.id))
                /\ adminNet' = Settled(adminNet, req, "ok", <<>>)
                /\ UNCHANGED nextId
    /\ adminEvent' = "other"
    /\ UNCHANGED <<properties, loading, isDialogOpen, editingProperty, formData,
                   mutations, openedBy>>
    /\ UNCHANGED chatVars

----------------------------------------------------------------------------
(* Admin Panel: the component *)

\* resetForm: the draft and the editing marker after it
resetForm ==
    /\ formData' = EmptyForm
    /\ editingProperty' = Null

\* handleInputChange(field, value), bound to every control of the dialog
handleInputChange ==
    /\ isDialogOpen
    /\ \E input \in TypedInputs :
          /\ formData[input[1]] # input[2]
          /\ formData' = [formData EXCEPT ![input[1]] = input[2]]
    /\ adminEvent' = "other"
    /\ UNCHANGED <<properties, loading, isDialogOpen, editingProperty, server,
                   nextId, adminNet, mutations, openedBy>>
    /\ UNCHANGED chatVars

\* the header's Add Property button: the dialog trigger, with onClick resetForm
AddProperty ==
    /\ ~isDialogOpen
    /\ resetForm
    /\ isDialogOpen' = TRUE
    /\ adminEvent' = "add"
    /\ openedBy' = [how |-> "add", id |-> ""]
    /\ UNCHANGED <<properties, loading, server, nextId, adminNet, mutations>>
    /\ UNCHANGED chatVars

\* the empty-state Add Your First Property button
AddFirstProperty ==
    /\ ~isDialogOpen
    /\ ~loading
    /\ properties = <<>>
    /\ isDialogOpen' = TRUE
    /\ adminEvent' = "addFirst"
    /\ openedBy' = [how |-> "addFirst", id |-> ""]
    /\ UNCHANGED <<properties, loading, editingProperty, formData, server,
                   nextId, adminNet, mutations>>
    /\ UNCHANGED chatVars

\* the text of a number, a decimal or a string
ToText(v) ==
    CASE v.tag = "num" -> IntToText(v.val)
      [] v.tag = "dec" -> DecToText(v)
      [] v.tag = "str" -> v.val

\* value?.toString() || ''
OptionalText_FalsyZero(v) == IF TruthyValue(v) THEN ToText(v) ELSE <<>>

OptionalText(v) ==
    IF v.tag = "null" THEN <<>>
    ELSE IF TruthyText(ToText(v)) THEN ToText(v) ELSE <<>>

\* value || ''
TextOrEmpty(v) == IF TruthyValue(v) THEN v.val ELSE <<>>

\* the draft handleEdit builds from a property
EditForm(property) ==
    [ title |-> property.title,
      description |-> property.description,
      price |-> IntToText(property.price),
      location |-> property.location,
      address |-> property.address,
      bedrooms |-> IntToText(property.bedrooms),
      bathrooms |-> IntToText(property.bathrooms),
      sqft |-> IntToText(property.sqft),
      property_type |-> property.property_type,
      image_url |-> property.image_url,
      amenities |-> Join(property.amenities, <<",", " ">>),
      year_built |-> OptionalText(property.year_built),
      garage |-> OptionalText(property.garage),
      lot_size |-> OptionalText(property.lot_size),
      mls_number |-> TextOrEmpty(property.mls_number) ]

\* the cards, with their Edit and Delete buttons, are rendered once loaded
CardsShown == ~loading /\ properties # <<>>

\* handleEdit(property), the Edit button of a card
handleEdit ==
    /\ ~isDialogOpen
    /\ CardsShown
    /\ \E i \in DOMAIN properties :
          /\ editingProperty' = properties[i]
          /\ formData' = EditForm(properties[i])
          /\ openedBy' = [how |-> "edit", id |-> properties[i].id]
    /\ isDialogOpen' = TRUE
    /\ adminEvent' = "edit"
    /\ UNCHANGED <<properties, loading, server, nextId, adminNet, mutations>>
    /\ UNCHANGED chatVars

\* the Cancel button, and the dialog closing itself through onOpenChange
CancelDialog ==
    /\ isDialogOpen
    /\ isDialogOpen' = FALSE
    /\ adminEvent' = "other"
    /\ openedBy' = NotOpened
    /\ UNCHANGED <<properties, loading, editingProperty, formData, server,
                   nextId, adminNet, mutations>>
    /\ UNCHANGED chatVars

\* parseInt(text) || 0
IntOrZero_FallbackOne(text) ==
    LET r == ParseInt(text) IN IF TruthyValue(r) THEN r.val ELSE 1

IntOrZero(text) ==
    LET r == ParseInt(text) IN IF TruthyValue(r) THEN r.val ELSE 0

\* text ? parseInt(text) : null
IntOrNull_FalsyZero(text) ==
    LET r == ParseInt(text) IN IF TruthyValue(r) THEN r ELSE Null

IntOrNull(text) == IF TruthyText(text) THEN ParseInt(text) ELSE Null

\* parts.map(a => a.trim())
TrimEach_DropEmpty(parts) ==
    SelectSeq([i \in DOMAIN parts |-> Trim(parts[i])], LAMBDA a : a # <<>>)

TrimEach(parts) == [i \in DOMAIN parts |-> Trim(parts[i])]

\* submitData of handleSubmit
SubmitData(form) ==
    [f \in FormFields |->
        CASE f \in {"price", "bedrooms", "bathrooms", "sqft"} -> IntOrZero(form[f])
          [] f \in {"year_built", "garage"} -> IntOrNull(form[f])
          [] f = "lot_size" ->
                IF TruthyText(form[f]) THEN ParseFloat(form[f]) ELSE Null
          [] f = "amenities" ->
                IF TruthyText(form[f]) THEN TrimEach(Split(form[f], ",")) ELSE <<>>
          [] OTHER -> form[f]]

\* the request handleSubmit sends: a PUT when the editing marker is set
SubmitRequest ==
    IF editingProperty # Null
    THEN Request("update", editingProperty.id, SubmitData(formData))
    ELSE Request("create", "", SubmitData(formData))

\* handleSubmit up to its await, the Create/Update button of the dialog
handleSubmit ==
    /\ isDialogOpen
    /\ mutations < MaxMutations
    /\ adminNet' = Sent(adminNet, SubmitRequest)
    /\ mutations' = mutations + 1
    /\ adminEvent' = "submit"
    /\ UNCHANGED <<properties, loading, isDialogOpen, editingProperty, formData,
                   server, nextId, openedBy>>
    /\ UNCHANGED chatVars

\* handleSubmit after a successful await
SaveSucceeded_NoRefresh(req) ==
    /\ isDialogOpen' = FALSE
    /\ resetForm
    /\ adminNet' = Taken(adminNet, req)
    /\ UNCHANGED loading

SaveSucceeded(req) ==
    /\ isDialogOpen' = FALSE
    /\ resetForm
    /\ adminNet' = Sent(Taken(adminNet, req), ListRequest)
    /\ loading' = TRUE

\* the catch block of handleSubmit: console.error and alert
SaveFailed_ClosesDialog(req) ==
    /\ adminNet' = Taken(adminNet, req)
    /\ isDialogOpen' = FALSE
    /\ UNCHANGED <<editingProperty, formData, loading>>

SaveFailed(req) ==
    /\ adminNet' = Taken(adminNet, req)
    /\ UNCHANGED <<isDialogOpen, editingProperty, formData, loading>>

\* the continuation of handleSubmit once its request has settled
SubmitSettles ==
    /\ \E req \in BagToSet(adminNet) :
          /\ req.kind \in {"create", "update"}
          /\ \/ /\ req.status = "ok"
                /\ SaveSucceeded(req)
                /\ adminEvent' = "saveOk"
             \/ /\ req.status = "failed"
                /\ SaveFailed(req)
                /\ adminEvent' = "saveFailed"
    /\ openedBy' = IF isDialogOpen' THEN openedBy ELSE NotOpened
    /\ UNCHANGED <<properties, server, nextId, mutations>>
    /\ UNCHANGED chatVars

\* handleDelete(propertyId), the Delete button of a card, with window.confirm
handleDelete_IgnoresConfirm ==
    /\ ~isDialogOpen
    /\ CardsShown
    /\ mutations < MaxMutations
    /\ \E i \in DOMAIN properties, confirmed \in BOOLEAN :
          /\ adminNet' = Sent(adminNet, Request("delete", properties[i].id, Null))
          /\ mutations' = mutations + 1
          /\ adminEvent' = IF confirmed THEN "other" ELSE "deleteDeclined"
    /\ UNCHANGED <<properties, loading, isDialogOpen, editingProperty, formData,
                   server, nextId, openedBy>>
    /\ UNCHANGED chatVars

handleDelete ==
    /\ ~isDialogOpen
    /\ CardsShown
    /\ \E i \in DOMAIN properties, confirmed \in BOOLEAN :
          IF confirmed
          THEN /\ mutations < MaxMutations
               /\ adminNet' = Sent(adminNet, Request("delete", properties[i].id, Null))
               /\ mutations' = mutations + 1
               /\ adminEvent' = "other"
          ELSE /\ adminEvent' = "deleteDeclined"
               /\ UNCHANGED <<adminNet, mutations>>
    /\ UNCHANGED <<properties, loading, isDialogOpen, editingProperty, formData,
                   server, nextId, openedBy>>
    /\ UNCHANGED chatVars

\* the continuation of handleDelete once its request has settled
DeleteSettles ==
    /\ \E req \in BagToSet(adminNet) :
          /\ req.kind = "delete"
          /\ \/ /\ req.status = "ok"
                /\ adminNet' = Sent(Taken(adminNet, req), ListRequest)
                /\ loading' = TRUE
                /\ adminEvent' = "other"
             \/ /\ req.status = "failed"
                /\ adminNet' = Taken(adminNet, req)
                /\ adminEvent' = "other"
                /\ UNCHANGED loading
    /\ UNCHANGED <<properties, isDialogOpen, editingProperty, formData, server,
                   nextId, mutations, openedBy>>
    /\ UNCHANGED chatVars

\* the continuation of fetchProperties once its request has settled
FetchSettles ==
    /\ \E req \in BagToSet(adminNet) :
          /\ req.kind = "list"
          /\ \/ /\ req.status = "ok"
                /\ properties' = req.data
                /\ adminEvent' = "other"
             \/ /\ req.status = "failed"
                /\ adminEvent' = "other"
                /\ UNCHANGED properties
          /\ adminNet' = Taken(adminNet, req)
    /\ loading' = FALSE
    /\ UNCHANGED <<isDialogOpen, editingProperty, formData, server, nextId,
                   mutations, openedBy>>
    /\ UNCHANGED chatVars

AdminNext ==
    \/ AddProperty
    \/ AddFirstProperty
    \/ handleEdit
    \/ handleInputChange
    \/ CancelDialog
    \/ handleSubmit
    \/ handleDelete
    \/ ApiHandles
    \/ SubmitSettles
    \/ DeleteSettles
    \/ FetchSettles

\* the Admin Panel alone: the landing page is not mounted
AdminPageInit == AdminInit /\ ChatInit

SpecAdmin == AdminPageInit /\ [][AdminNext]_vars

\* the HTTP API when every GET /properties is answered: creates, updates
\* and deletes may still fail, list fetches never do
ApiAnswersLists ==
    /\ ApiHandles
    /\ \A req \in BagToSet(adminNet') :
          req.kind = "list" => req.status # "failed"

AdminNextListsAnswered ==
    \/ AddProperty
    \/ AddFirstProperty
    \/ handleEdit
    \/ handleInputChange
    \/ CancelDialog
    \/ handleSubmit
    \/ handleDelete
    \/ ApiAnswersLists
    \/ SubmitSettles
    \/ DeleteSettles
    \/ FetchSettles

\* the Admin Panel over a network on which no list fetch is lost
SpecAdminListsAnswered == AdminPageInit /\ [][AdminNextListsAnswered]_vars

\* the panel with the list loaded, the Add Property dialog open and a draft
\* typed into its number inputs and its amenities input
DraftTyped ==
    /\ server = <<PropA>>
    /\ properties = server
    /\ loading = FALSE
    /\ isDialogOpen = TRUE
    /\ editingProperty = Null
    /\ \E n \in NumberInputValues, m \in NumberInputValues, a \in AmenitiesTexts :
          formData = [EmptyForm EXCEPT !.price = n, !.bathrooms = n,
                                       !.year_built = n, !.bedrooms = m,
                                       !.sqft = m, !.garage = m,
                                       !.amenities = a]
    /\ nextId = 0
    /\ adminNet = EmptyBag
    /\ mutations = 0
    /\ adminEvent = "other"
    /\ openedBy = [how |-> "add", id |-> ""]
    /\ ChatInit

SubmitNext ==
    \/ handleSubmit
    \/ ApiHandles
    \/ SubmitSettles
    \/ FetchSettles
    \/ handleEdit

\* submitting typed drafts, and editing and resubmitting what was saved
SpecSubmit == DraftTyped /\ [][SubmitNext]_vars

----------------------------------------------------------------------------
(* Chat Widget *)

\* floating chat button, rendered while the widget is closed
OpenChat ==
    /\ ~chatOpen
    /\ chatOpen' = TRUE
    /\ chatEvent' = "open"
    /\ UNCHANGED <<messages, inputMessage, isLoading, chatNet>>
    /\ UNCHANGED adminVars

\* the X button of the widget
CloseChat_ClearsTranscript ==
    /\ chatOpen
    /\ chatOpen' = FALSE
    /\ chatEvent' = "close"
    /\ messages' = <<AgentTurn(Greeting)>>
    /\ UNCHANGED <<inputMessage, isLoading, chatNet>>
    /\ UNCHANGED adminVars

CloseChat ==
    /\ chatOpen
    /\ chatOpen' = FALSE
    /\ chatEvent' = "close"
    /\ UNCHANGED <<messages, inputMessage, isLoading, chatNet>>
    /\ UNCHANGED adminVars

\* the textarea is disabled while a reply is awaited
InputDisabled == isLoading

\* onChange of the textarea
ChangeInput ==
    /\ chatOpen
    /\ ~InputDisabled
    /\ \E text \in InputTexts :
          /\ text # inputMessage
          /\ inputMessage' = text
    /\ chatEvent' = "input"
    /\ UNCHANGED <<chatOpen, messages, isLoading, chatNet>>
    /\ UNCHANGED adminVars

\* the early return of sendMessage
SendSuppressed_NoTrim == inputMessage = <<>> \/ isLoading

SendSuppressed == Trim(inputMessage) = <<>> \/ isLoading

\* the state updates of an accepted send, up to the await
AcceptSend_NoUserTurn ==
    /\ inputMessage' = <<>>
    /\ messages' = messages
    /\ isLoading' = TRUE
    /\ chatNet' = Append(chatNet,
                     [message |-> inputMessage, status |-> "sent", response |-> <<>>])

AcceptSend_NoLoadingFlag ==
    /\ inputMessage' = <<>>
    /\ messages' = Append(messages, UserTurn(inputMessage))
    /\ isLoading' = isLoading
    /\ chatNet' = Append(chatNet,
                     [message |-> inputMessage, status |-> "sent", response |-> <<>>])

AcceptSend ==
    /\ inputMessage' = <<>>
    /\ messages' = Append(messages, UserTurn(inputMessage))
    /\ isLoading' = TRUE
    /\ chatNet' = Append(chatNet,
                     [message |-> inputMessage, status |-> "sent", response |-> <<>>])

\* sendMessage, called by the send button or by Enter in the textarea
sendMessage ==
    /\ chatOpen
    /\ SendSuppressed \/ UserTurns < MaxExchanges
    /\ IF SendSuppressed
       THEN /\ chatEvent' = "sendSuppressed"
            /\ UNCHANGED <<messages, inputMessage, isLoading, chatNet>>
       ELSE /\ AcceptSend
            /\ chatEvent' = "sendAccepted"
    /\ UNCHANGED chatOpen
    /\ UNCHANGED adminVars

\* the chat endpoint answers a request, or the request fails
ChatEndpoint ==
    /\ \E i \in DOMAIN chatNet :
          /\ chatNet[i].status = "sent"
          /\ \/ \E text \in AgentTexts :
                   chatNet' = [chatNet EXCEPT ![i].status = "ok", ![i].response = text]
             \/ chatNet' = [chatNet EXCEPT ![i].status = "notOk"]
             \/ chatNet' = [chatNet EXCEPT ![i].status = "failed"]
    /\ chatEvent' = "endpoint"
    /\ UNCHANGED <<chatOpen, messages, inputMessage, isLoading>>
    /\ UNCHANGED adminVars

\* the turn sendMessage appends once the request has settled
ReplyTurn_OneFallback(req) ==
    IF req.status = "ok" THEN AgentTurn(req.response)
    ELSE AgentTurn(UnavailableMessage)

ReplyTurn(req) ==
    IF req.status = "ok" THEN AgentTurn(req.response)
    ELSE IF req.status = "notOk" THEN AgentTurn(ApologyMessage)
    ELSE AgentTurn(UnavailableMessage)

\* the transcript after the try or the catch block has run
MessagesAfterReply_SilentCatch(req) ==
    IF req.status = "failed" THEN messages ELSE Append(messages, ReplyTurn(req))

MessagesAfterReply(req) == Append(messages, ReplyTurn(req))

\* the flag after the finally block
LoadingAfterReply_NoFinally(req) == isLoading /\ req.status = "failed"

LoadingAfterReply(req) == FALSE

\* the continuation of sendMessage after the await: try, catch and finally
ChatReply ==
    /\ \E i \in DOMAIN chatNet :
          /\ chatNet[i].status # "sent"
          /\ messages' = MessagesAfterReply(chatNet[i])
          /\ isLoading' = LoadingAfterReply(chatNet[i])
          /\ chatEvent' = CASE chatNet[i].status = "ok" -> "replyOk"
                            [] chatNet[i].status = "notOk" -> "replyNotOk"
                            [] OTHER -> "replyFailed"
          /\ chatNet' = RemoveAt(chatNet, i)
    /\ UNCHANGED <<chatOpen, inputMessage>>
    /\ UNCHANGED adminVars

ChatNext ==
    \/ OpenChat
    \/ CloseChat
    \/ ChangeInput
    \/ sendMessage
    \/ ChatEndpoint
    \/ ChatReply

\* the landing page alone: the Admin Panel is not mounted
LandingPageInit == ChatInit /\ AdminUnmounted

SpecChat == LandingPageInit /\ [][ChatNext]_vars

\* every chat request eventually completes and its continuation runs
SpecChatFair == SpecChat /\ WF_vars(ChatEndpoint) /\ WF_vars(ChatReply)

----------------------------------------------------------------------------
(* Chat Widget: properties *)

SendEvents == {"sendSuppressed", "sendAccepted"}

ReplyEvents == {"replyOk", "replyNotOk", "replyFailed"}

IsPrefix(s, t) == Len(s) <= Len(t) /\ SubSeq(t, 1, Len(s)) = s

\* C1: a call of sendMessage while a chat request is in flight (isLoading)
\* appends no turn and issues no request, and at most one chat request is
\* outstanding in every reachable state.
C1_SendWhileLoadingIsNoOp ==
    [][ /\ (isLoading /\ chatEvent' \in SendEvents)
            => (messages' = messages /\ chatNet' = chatNet)
        /\ Len(chatNet') <= 1 ]_vars

C1_Witness ==
    chatEvent = "sendSuppressed" /\ isLoading /\ Len(chatNet) = 1

\* C2: when the request of an accepted send fails, exactly one agent turn
\* carrying a fallback message is appended, and the user turn that triggered
\* the send is the turn immediately before it.
C2_FailedSendAppendsOneFallback ==
    [][ chatEvent' = "replyFailed" =>
          \E i \in DOMAIN chatNet :
             /\ chatNet[i].status = "failed"
             /\ chatNet' = RemoveAt(chatNet, i)
             /\ Len(messages') = Len(messages) + 1
             /\ IsPrefix(messages, messages')
             /\ Last(messages').type = "agent"
             /\ Last(messages').content \in {ApologyMessage, UnavailableMessage}
             /\ messages'[Len(messages') - 1] = UserTurn(chatNet[i].message) ]_vars

C2_Witness ==
    /\ chatEvent = "replyFailed"
    /\ Len(messages) >= 3
    /\ Last(messages) = AgentTurn(UnavailableMessage)
    /\ messages[Len(messages) - 1].type = "user"

\* C3: provided every chat request completes, every accepted send is
\* eventually followed by a state with the awaiting-reply flag cleared and
\* one agent turn appended for each user turn sent.
C3_SendEventuallyAnswered ==
    isLoading ~> (~isLoading /\ chatNet = <<>> /\ AgentReplies = UserTurns)

C3_Witness ==
    /\ chatEvent \in ReplyEvents
    /\ ~isLoading
    /\ UserTurns >= 1
    /\ AgentReplies = UserTurns

\* C4 as stated: a response with success false and a request failure append
\* the same fixed fallback message, so any two agent turns of the transcript
\* that are neither the greeting nor a response text carry the same message.
C4_SameFallbackMessage ==
    \A i, j \in 2..Len(messages) :
       ( /\ messages[i].type = "agent" /\ messages[i].content \notin AgentTexts
         /\ messages[j].type = "agent" /\ messages[j].content \notin AgentTexts )
       => messages[i].content = messages[j].content

\* C4 as amended: a response with success true appends the response text; a
\* response with success false appends the fixed apology message and a
\* request failure appends the fixed unavailable message, a different text;
\* each appends exactly one agent turn.
C4_ReplyByOutcome ==
    [][ chatEvent' \in ReplyEvents =>
          \E i \in DOMAIN chatNet :
             /\ chatNet' = RemoveAt(chatNet, i)
             /\ chatEvent' = "replyOk" =>
                   (chatNet[i].status = "ok"
                    /\ messages' = Append(messages, AgentTurn(chatNet[i].response)))
             /\ chatEvent' = "replyNotOk" =>
                   (chatNet[i].status = "notOk"
                    /\ messages' = Append(messages, AgentTurn(ApologyMessage)))
             /\ chatEvent' = "replyFailed" =>
                   (chatNet[i].status = "failed"
                    /\ messages' = Append(messages, AgentTurn(UnavailableMessage)))
             /\ ApologyMessage # UnavailableMessage ]_vars

C4_Witness ==
    \E i, j \in 2..Len(messages) :
       /\ messages[i] = AgentTurn(ApologyMessage)
       /\ messages[j] = AgentTurn(UnavailableMessage)

\* C5: a call of sendMessage with an empty or whitespace-only input leaves
\* the transcript, the input text and the awaiting-reply flag unchanged and
\* issues no request.
C5_BlankSendChangesNothing ==
    [][ (Trim(inputMessage) = <<>> /\ chatEvent' \in SendEvents)
          => UNCHANGED <<messages, inputMessage, isLoading, chatNet>> ]_vars

C5_Witness ==
    /\ chatEvent = "sendSuppressed"
    /\ ~isLoading
    /\ inputMessage # <<>>
    /\ Trim(inputMessage) = <<>>

----------------------------------------------------------------------------
(* Admin Panel: properties *)

\* the step opens the dialog, through the named controls
Opens(controls) == ~isDialogOpen /\ isDialogOpen' /\ openedBy'.how \in controls

ListRequestsIn(net) == CopiesIn(ListRequest, net)

\* C6: opening the dialog to add a property, through the header button or
\* the empty-state button, presents the empty draft template with the
\* editing marker cleared, whatever happened before.
C6_AddOpensEmptyDraft ==
    [][ Opens({"add", "addFirst"})
          => (formData' = EmptyForm /\ editingProperty' = Null) ]_vars

\* C7: Edit on a listed property P sets the editing marker to P, opens the
\* dialog and makes every draft field the text of P's field, the empty text
\* for an absent year_built, garage, lot_size or mls_number; the draft has
\* these fields and nothing else.
C7_EditLoadsProperty ==
    [][ adminEvent' = "edit" =>
          \E i \in DOMAIN properties :
             LET P == properties[i] IN
             /\ isDialogOpen'
             /\ editingProperty' = P
             /\ formData' =
                  [ title |-> P.title,
                    description |-> P.description,
                    price |-> IntToText(P.price),
                    location |-> P.location,
                    address |-> P.address,
                    bedrooms |-> IntToText(P.bedrooms),
                    bathrooms |-> IntToText(P.bathrooms),
                    sqft |-> IntToText(P.sqft),
                    property_type |-> P.property_type,
                    image_url |-> P.image_url,
                    amenities |-> Join(P.amenities, <<",", " ">>),
                    year_built |-> IF P.year_built = Null THEN <<>>
                                   ELSE IntToText(P.year_built.val),
                    garage |-> IF P.garage = Null THEN <<>>
                               ELSE IntToText(P.garage.val),
                    lot_size |-> IF P.lot_size = Null THEN <<>>
                                 ELSE DecToText(P.lot_size),
                    mls_number |-> IF P.mls_number = Null THEN <<>>
                                   ELSE P.mls_number.val ] ]_vars

C7_Witness ==
    /\ adminEvent = "edit"
    /\ isDialogOpen
    /\ editingProperty # Null
    /\ editingProperty.year_built = Null
    /\ editingProperty.mls_number = Null
    /\ formData.year_built = <<>>
    /\ formData.price = <<"0">>

\* C8: a submit issues an update request for P exactly when the dialog was
\* opened by Edit on P, and a create request exactly when it was opened for
\* adding; no update request leaves a dialog opened to add a property.
C8_SubmitFollowsOpening ==
    [][ adminEvent' = "submit" =>
          \E req \in BagToSet(adminNet') :
             /\ adminNet' = Sent(adminNet, req)
             /\ req.status = "sent"
             /\ req.kind \in {"create", "update"}
             /\ req.kind = "update" <=>
                  (openedBy.how = "edit" /\ openedBy.id = req.id)
             /\ req.kind = "create" <=> openedBy.how \in {"add", "addFirst"} ]_vars

\* C9: when a create or update request fails, the dialog, the draft and the
\* editing marker are as they were and no list request is issued; a list
\* request is issued only by the continuation of a successful mutation.
C9_FailureKeepsDraft ==
    [][ /\ adminEvent' = "saveFailed" =>
             /\ isDialogOpen' = isDialogOpen
             /\ formData' = formData
             /\ editingProperty' = editingProperty
             /\ ListRequestsIn(adminNet') = ListRequestsIn(adminNet)
        /\ ListRequestsIn(adminNet') > ListRequestsIn(adminNet) =>
             \E req \in BagToSet(adminNet) :
                /\ req.kind \in {"create", "update", "delete"}
                /\ req.status = "ok"
                /\ adminNet' = Sent(Taken(adminNet, req), ListRequest) ]_vars

C9_Witness ==
    /\ adminEvent = "saveFailed"
    /\ isDialogOpen
    /\ formData # EmptyForm
    /\ editingProperty # Null

\* C10: when a create or update request succeeds, the dialog is closed, the
\* draft is the empty template, the editing marker is cleared and exactly
\* one list request is issued.
C10_SuccessClosesAndRefreshes ==
    [][ adminEvent' = "saveOk" =>
          /\ ~isDialogOpen'
          /\ formData' = EmptyForm
          /\ editingProperty' = Null
          /\ loading'
          /\ \E req \in BagToSet(adminNet) :
                /\ req.kind \in {"create", "update"}
                /\ req.status = "ok"
                /\ adminNet' = Sent(Taken(adminNet, req), ListRequest) ]_vars

C10_Witness ==
    /\ adminEvent = "saveOk"
    /\ ~isDialogOpen
    /\ formData = EmptyForm
    /\ editingProperty = Null
    /\ ListRequestsIn(adminNet) = 1

\* C11: the draft exists only while the dialog is open: in every state where
\* the dialog is closed the draft is the empty template and the editing
\* marker is cleared.
C11_ClosedDialogHasNoDraft ==
    ~isDialogOpen => (formData = EmptyForm /\ editingProperty = Null)

\* C12: declining the delete confirmation issues no request, neither a
\* delete nor a list fetch, and leaves the held list, the draft, the editing
\* marker, the dialog and the loading flag as they were.
C12_DeclinedDeleteChangesNothing ==
    [][ adminEvent' = "deleteDeclined"
          => UNCHANGED <<adminNet, properties, formData, editingProperty,
                         isDialogOpen, loading, server>> ]_vars

C12_Witness ==
    /\ adminEvent = "deleteDeclined"
    /\ CardsShown
    /\ adminNet = EmptyBag
    /\ mutations = 0

\* C13: once a property has been deleted on the server and every request
\* has settled, the displayed list does not contain it (a property leaves
\* the store only by a delete, so a displayed id missing from the store is
\* a deleted property), even when no list fetch fails.
C13_DeletedPropertyNotListed ==
    adminNet = EmptyBag =>
        \A i \in DOMAIN properties : properties[i].id \in StoreIds

\* the integer the draft text of an integer field stands for: what parseInt
\* reads at its start, 0 when it reads nothing
IntegerOf(text) ==
    IF text = <<>> \/ ParseInt(text).tag = "NaN" THEN 0 ELSE ParseInt(text).val

\* C14: the payload of a submit carries, for price, bedrooms, bathrooms and
\* sqft, the parsed integer of the draft text, or 0 when the text is empty or
\* has no integer to parse; whatever the draft holds, the submit issues its
\* create or update request.
C14_IntegerFieldsParsedOrZero ==
    [][ adminEvent' = "submit" =>
          \E req \in BagToSet(adminNet') :
             /\ adminNet' = Sent(adminNet, req)
             /\ req.kind \in {"create", "update"}
             /\ req.status = "sent"
             /\ \A f \in {"price", "bedrooms", "bathrooms", "sqft"} :
                   req.payload[f] = IntegerOf(formData[f]) ]_vars

C14_Witness ==
    /\ adminEvent = "submit"
    /\ formData.price = <<".", "5">>
    /\ formData.sqft = <<"1", "e", "3">>
    /\ \E req \in BagToSet(adminNet) :
          /\ req.kind = "create"
          /\ req.status = "sent"
          /\ req.payload.price = 0
          /\ req.payload.bathrooms = 0
          /\ req.payload.sqft = 1
          /\ req.payload.bedrooms = 1

CommasOf(text) == {i \in DOMAIN text : text[i] = ","}

NthComma(text, k) ==
    CHOOSE i \in CommasOf(text) : Cardinality({j \in CommasOf(text) : j < i}) = k - 1

SegmentOf(text, k) ==
    SubSeq(text,
           IF k = 1 THEN 1 ELSE NthComma(text, k - 1) + 1,
           IF k = Cardinality(CommasOf(text)) + 1 THEN Len(text)
           ELSE NthComma(text, k) - 1)

\* C16: the payload's amenities are the segments of the draft text between
\* its commas, in order, each without surrounding white space, the empty
\* ones included: one more than the text has commas; an empty text gives
\* the empty list.
C16_AmenitiesSplitAndTrimmed ==
    [][ adminEvent' = "submit" =>
          \E req \in BagToSet(adminNet') :
             /\ adminNet' = Sent(adminNet, req)
             /\ LET text == formData.amenities
                    list == req.payload.amenities
                IN  IF text = <<>> THEN list = <<>>
                    ELSE /\ Len(list) = Cardinality(CommasOf(text)) + 1
                         /\ \A k \in DOMAIN list :
                               /\ list[k] = Trim(SegmentOf(text, k))
                               /\ list[k] # <<>> =>
                                    ~IsSpace(Head(list[k])) /\ ~IsSpace(Last(list[k])) ]_vars

C16_Witness ==
    /\ adminEvent = "submit"
    /\ formData.amenities = <<"P", "o", "o", "l", ",", ",", "S", "p", "a", ",">>
    /\ \E req \in BagToSet(adminNet) :
          /\ req.status = "sent"
          /\ req.payload.amenities =
                << <<"P", "o", "o", "l">>, <<>>, <<"S", "p", "a">>, <<>> >>

\* C17: the transcript only grows: every step of the landing page (send,
\* reply, fallback, closing and reopening the widget) keeps the transcript
\* it found as a prefix of the one it leaves, and the first turn is the
\* agent greeting.
C17_TranscriptAppendOnly ==
    [][ /\ IsPrefix(messages, messages')
        /\ messages[1] = AgentTurn(Greeting)
        /\ messages'[1] = AgentTurn(Greeting) ]_vars

C17_Witness ==
    /\ chatEvent = "open"
    /\ Len(messages) = 5
    /\ messages[3] = AgentTurn(UnavailableMessage)
    /\ messages[5].content \in AgentTexts

\* the create and update requests the panel has sent and not yet seen settle
SavesOutstanding ==
    {req \in BagToSet(adminNet) : req.kind \in {"create", "update"}}

\* C18: at most one create or update request of the Admin Panel is
\* outstanding at any time.
C18_OneSaveOutstanding ==
    \A req \in SavesOutstanding :
        /\ CopiesIn(req, adminNet) = 1
        /\ SavesOutstanding = {req}

\* C19: the transcript is the greeting and then user and agent turns in
\* strict alternation; with no chat request in flight it ends with an agent
\* turn and has as many user turns as agent replies, with one in flight it
\* ends with the user turn that was sent and has one more user turn.
C19_TranscriptAlternates ==
    /\ messages[1] = AgentTurn(Greeting)
    /\ \A i \in 2..Len(messages) :
          messages[i].type = (IF i % 2 = 0 THEN "user" ELSE "agent")
    /\ chatNet = <<>> =>
          /\ Last(messages).type = "agent"
          /\ UserTurns = AgentReplies
    /\ chatNet # <<>> =>
          /\ Len(chatNet) = 1
          /\ Last(messages) = UserTurn(chatNet[1].message)
          /\ UserTurns = AgentReplies + 1

C19_Witness ==
    /\ chatNet # <<>>
    /\ chatNet[1].status = "ok"
    /\ Len(messages) = 4
    /\ messages[3] = AgentTurn(ApologyMessage)
    /\ messages[4] = UserTurn(<<" ", "h", "i", " ">>)

====
